---- MODULE Spec2Model ----
(***************************************************************************)
(* Model of delay_control.py: the DelayController class (a host-side       *)
(* controller that talks to a Raspberry Pi Pico pulse generator over a     *)
(* serial line) together with the `with DelayController() as dc:` scope    *)
(* that main() and test_delay_control.py wrap around it.                   *)
(*                                                                         *)
(* Text (str / bytes) is a sequence of one-character strings.  A Python    *)
(* int is unbounded, and the table holds (2**32 - 1) * 5, so an int is a   *)
(* pair <<hi, lo>> that stands for hi * LimbBase + lo with 0 <= lo <       *)
(* LimbBase (hi carries the sign, as in floor division).                   *)
(***************************************************************************)
EXTENDS Integers, Sequences, FiniteSets, TLC

VARIABLES serOpen, pc, store, rxbuf, nwrites, nreads, ncalls, untimely, call, told

vars == <<serOpen, pc, store, rxbuf, nwrites, nreads, ncalls, untimely, call, told>>

(***************************************************************************)
(* Bounds of the model.                                                    *)
(***************************************************************************)
\* number of set_parameters / get_parameter calls made inside one scope
MaxCalls == 2
\* longest batch made of BatchPairs (the batch of test_delay_control.py,
\* four pairs long, is an input besides)
MaxBatch == 2

(***************************************************************************)
(* Python int: arithmetic on <<hi, lo>>.                                   *)
(***************************************************************************)
LimbBase == 10^6

ToBig(n) == <<n \div LimbBase, n % LimbBase>>

\* a <= b
BigLeq(a, b) == a[1] < b[1] \/ (a[1] = b[1] /\ a[2] <= b[2])

\* a % d and a // d for a small d > 0 (Python floors, as \div and % do)
BigMod(a, d) == ((a[1] % d) * LimbBase + a[2]) % d

BigDiv(a, d) == <<a[1] \div d, ((a[1] % d) * LimbBase + a[2]) \div d>>

\* a * d for a small d >= 0
BigMul(a, d) == <<a[1] * d + ((a[2] * d) \div LimbBase), (a[2] * d) % LimbBase>>

\* a + n for a small n
BigAdd(a, n) == <<a[1] + ((a[2] + n) \div LimbBase), (a[2] + n) % LimbBase>>

BigNeg(a) == IF a[2] = 0 THEN <<-a[1], 0>> ELSE <<-a[1] - 1, LimbBase - a[2]>>

RECURSIVE BigPow2(_)
BigPow2(k) == IF k = 0 THEN ToBig(1) ELSE BigMul(BigPow2(k - 1), 2)

(***************************************************************************)
(* Text: f"{n}" of an int, int(s) of a str, str.strip(), key[0].           *)
(***************************************************************************)
DigitChars == <<"0", "1", "2", "3", "4", "5", "6", "7", "8", "9">>

Whitespace == {" ", "\n", "\r", "\t"}

IsDigit(c) == \E i \in 1..10 : DigitChars[i] = c

DigitVal(c) == (CHOOSE i \in 1..10 : DigitChars[i] = c) - 1

RECURSIVE Digits(_)
Digits(n) ==
    IF n < 10 THEN <<DigitChars[n + 1]>>
    ELSE Digits(n \div 10) \o <<DigitChars[(n % 10) + 1]>>

\* the low limb below a non-zero high limb: six digits, zeros kept
PadLimb(n) == [i \in 1..6 |-> DigitChars[((n \div 10^(6 - i)) % 10) + 1]]

\* f"{divided_value}" and the device's decimal printing of an int
RECURSIVE IntToStr(_)
IntToStr(a) ==
    IF a[1] < 0 THEN <<"-">> \o IntToStr(BigNeg(a))
    ELSE IF a[1] = 0 THEN Digits(a[2])
    ELSE Digits(a[1]) \o PadLimb(a[2])

RECURSIVE Horner(_, _)
Horner(ds, acc) ==
    IF ds = <<>> THEN acc
    ELSE Horner(Tail(ds), BigAdd(BigMul(acc, 10), DigitVal(Head(ds))))

AllDigits(s) == s # <<>> /\ \A i \in 1..Len(s) : IsDigit(s[i])

\* int(response): an optional sign and then decimal digits; anything else
\* raises ValueError, which NoInt stands for (the text is stripped before
\* it gets here; digit-group underscores are not among the characters used)
NoInt == <<>>

ParseInt(s) ==
    IF s # <<>> /\ Head(s) \in {"-", "+"}
    THEN IF ~AllDigits(Tail(s)) THEN NoInt
         ELSE IF Head(s) = "-" THEN BigNeg(Horner(Tail(s), ToBig(0)))
         ELSE Horner(Tail(s), ToBig(0))
    ELSE IF AllDigits(s) THEN Horner(s, ToBig(0)) ELSE NoInt

RECURSIVE LStrip(_)
LStrip(s) == IF s # <<>> /\ Head(s) \in Whitespace THEN LStrip(Tail(s)) ELSE s

RECURSIVE RStrip(_)
RStrip(s) ==
    IF s # <<>> /\ s[Len(s)] \in Whitespace THEN RStrip(SubSeq(s, 1, Len(s) - 1))
    ELSE s

\* str.strip()
Strip(s) == RStrip(LStrip(s))

\* the spelling of every key a caller passes
KeyChars ==
    [offset  |-> <<"o", "f", "f", "s", "e", "t">>,
     length  |-> <<"l", "e", "n", "g", "t", "h">>,
     spacing |-> <<"s", "p", "a", "c", "i", "n", "g">>,
     repeats |-> <<"r", "e", "p", "e", "a", "t", "s">>,
     bogus   |-> <<"b", "o", "g", "u", "s">>]

\* key[0]
FirstChar(key) == KeyChars[key][1]

(***************************************************************************)
(* DelayController.param_constraints                                       *)
(***************************************************************************)
param_constraints ==
    [offset  |-> [range   |-> <<ToBig(2 * 5), BigMul(BigAdd(BigPow2(32), -1), 5)>>,
                  divider |-> 5],
     length  |-> [range   |-> <<ToBig(1 * 5), BigMul(BigAdd(BigPow2(7), -1), 5)>>,
                  divider |-> 5],
     spacing |-> [range   |-> <<ToBig(6 * 6), BigMul(BigAdd(BigPow2(20), -1), 5)>>,
                  divider |-> 5],
     repeats |-> [range   |-> <<ToBig(0), ToBig(31)>>,
                  divider |-> 1]]

(***************************************************************************)
(* Values a caller passes and what a call gives back.                      *)
(***************************************************************************)
\* a value that is no int (a float), for the isinstance test
NotAnInt == <<"2.5">>

\* isinstance(value, int)
IsInt(value) == Len(value) = 2

\* Python's None
None == <<>>

\* raise exc(msg ...): the f-string's fields are kept apart
Raise(exc, msg, key, response, command) ==
    [exc |-> exc, msg |-> msg, key |-> key, response |-> response,
     command |-> command, ret |-> None]

\* return v
Return(v) ==
    [exc |-> "none", msg |-> "", key |-> "", response |-> <<>>,
     command |-> <<>>, ret |-> v]

(***************************************************************************)
(* DelayController.set_parameters: the body of the loop over the batch.    *)
(***************************************************************************)
\* min_val <= value <= max_val
InRange(value, value_range) ==
    BigLeq(value_range[1], value) /\ BigLeq(value, value_range[2])

\* the checks of a pair with the divisor tested before the range
CheckItemAlignFirst(key, value) ==
    IF key \notin DOMAIN param_constraints
    THEN Raise("ValueError", "Invalid parameter", key, <<>>, <<>>)
    ELSE IF ~IsInt(value)
    THEN Raise("ValueError", "must be an integer", key, <<>>, <<>>)
    ELSE IF BigMod(value, param_constraints[key].divider) # 0
    THEN Raise("ValueError", "must be divisible by", key, <<>>, <<>>)
    ELSE IF ~InRange(value, param_constraints[key].range)
    THEN Raise("ValueError", "is out of valid range", key, <<>>, <<>>)
    ELSE Return(None)

\* the checks of one (key, value) pair, in the order of the code
CheckItem(key, value) ==
    IF key \notin DOMAIN param_constraints
    THEN Raise("ValueError", "Invalid parameter", key, <<>>, <<>>)
    ELSE IF ~IsInt(value)
    THEN Raise("ValueError", "must be an integer", key, <<>>, <<>>)
    ELSE IF ~InRange(value, param_constraints[key].range)
    THEN Raise("ValueError", "is out of valid range", key, <<>>, <<>>)
    ELSE IF BigMod(value, param_constraints[key].divider) # 0
    THEN Raise("ValueError", "must be divisible by", key, <<>>, <<>>)
    ELSE Return(None)

\* f"{key[0]} {divided_value} " with divided_value = value // divider
EncodeItem(key, value) ==
    <<FirstChar(key), " ">>
        \o IntToStr(BigDiv(value, param_constraints[key].divider)) \o <<" ">>

\* a variant that drops a pair failing its checks and sends the rest
RECURSIVE BuildCommandSkip(_, _)
BuildCommandSkip(items, uart_string) ==
    IF items = <<>> THEN Return(uart_string)
    ELSE IF CheckItem(Head(items)[1], Head(items)[2]).exc # "none"
    THEN BuildCommandSkip(Tail(items), uart_string)
    ELSE BuildCommandSkip(Tail(items),
             uart_string \o EncodeItem(Head(items)[1], Head(items)[2]))

\* the loop: the first failing pair raises, else the command text is built
RECURSIVE BuildCommand(_, _)
BuildCommand(items, uart_string) ==
    IF items = <<>> THEN Return(uart_string)
    ELSE IF CheckItem(Head(items)[1], Head(items)[2]).exc # "none"
    THEN CheckItem(Head(items)[1], Head(items)[2])
    ELSE BuildCommand(Tail(items),
             uart_string \o EncodeItem(Head(items)[1], Head(items)[2]))

\* uart_string.encode('ascii') and bytes.decode(): the wire protocol is
\* ASCII and every line here is, so the characters are unchanged (bytes
\* that are no text, which decode() would refuse, are outside the model)
Encode(s) == s

Decode(b) == b

\* the text a get writes: f"G {key[0]}"
GetCommand(key) == <<"G", " ", FirstChar(key)>>

\* a return of the device value as it came
ToPhysicalRaw(raw, divider) == raw

\* raw * divider
ToPhysical(raw, divider) == BigMul(raw, divider)

(***************************************************************************)
(* The device at the far end of the serial line (the Pico firmware), as    *)
(* the wire protocol describes it: it keeps one device-unit value per      *)
(* code, answers a set with OK and a get with the value it holds.          *)
(***************************************************************************)
Codes == {"o", "l", "s", "r"}

RECURSIVE SplitSpaces(_, _, _)
SplitSpaces(s, cur, acc) ==
    IF s = <<>> THEN (IF cur = <<>> THEN acc ELSE Append(acc, cur))
    ELSE IF Head(s) \in Whitespace
    THEN SplitSpaces(Tail(s), <<>>, IF cur = <<>> THEN acc ELSE Append(acc, cur))
    ELSE SplitSpaces(Tail(s), Append(cur, Head(s)), acc)

RECURSIVE DeviceStore(_, _)
DeviceStore(st, toks) ==
    IF Len(toks) < 2 THEN st
    ELSE DeviceStore(
             IF Len(toks[1]) = 1 /\ toks[1][1] \in Codes /\ ParseInt(toks[2]) # NoInt
             THEN [st EXCEPT ![toks[1][1]] = ParseInt(toks[2])]
             ELSE st,
             SubSeq(toks, 3, Len(toks)))

LineOK == <<"O", "K", "\n">>

LineERR == <<"E", "R", "R", "\n">>

\* what a device that follows the protocol does with the bytes of a command
DeviceReply(st, cmd) ==
    LET toks == SplitSpaces(cmd, <<>>, <<>>)
    IN  IF toks # <<>> /\ toks[1] = <<"S">>
        THEN [store |-> DeviceStore(st, Tail(toks)), text |-> LineOK]
        ELSE IF Len(toks) = 2 /\ toks[1] = <<"G">> /\ Len(toks[2]) = 1
                /\ toks[2][1] \in Codes
        THEN [store |-> st, text |-> IntToStr(st[toks[2][1]]) \o <<"\n">>]
        ELSE [store |-> st, text |-> LineERR]

\* lines a device (or a fault on the line) may answer with instead
ScriptedLines ==
    { <<"O", "K", "\r", "\n">>,
      <<"E", "R", "R", " ", "b", "a", "d", " ", "v", "a", "l", "u", "e", "\n">>,
      <<"a", "b", "c", "\n">>,
      <<"-", "1", "\n">>,
      <<" ", "7", "\r", "\n">> }

\* how the device behaves on one command: it follows the protocol in time
\* ("echo"), follows it but answers after the read has timed out ("late"),
\* does not answer ("silent"), or answers in time with a scripted line
DeviceModes ==
    { [kind |-> k, line |-> <<>>] : k \in {"echo", "late", "silent"} }
        \cup { [kind |-> "say", line |-> l] : l \in ScriptedLines }

\* the device's side of one command: its store afterwards, the line it
\* sends (tagged with the number of the command it answers) and whether the
\* line is there before the read times out
DeviceStep(st, cmd, seq, mode) ==
    LET reply == DeviceReply(st, cmd)
    IN  [store  |-> IF mode.kind \in {"echo", "late"} THEN reply.store ELSE st,
         lines  |-> IF mode.kind = "silent" THEN <<>>
                    ELSE IF mode.kind = "say"
                    THEN <<[tag |-> seq, text |-> mode.line]>>
                    ELSE <<[tag |-> seq, text |-> reply.text]>>,
         timely |-> mode.kind \in {"echo", "say"}]

(***************************************************************************)
(* serial.Serial(port, baudrate, timeout=1)                                *)
(***************************************************************************)
\* a readline that takes nothing from the input buffer
ReadLineSkipped(buf) ==
    [line |-> <<>>, tag |-> 0, rest |-> buf, reads |-> 0]

\* self.ser.readline(): the first line of the input buffer, or b'' once the
\* timeout has passed with nothing there (no exception is raised); the
\* device sends whole lines
ReadLine(buf) ==
    IF buf = <<>> THEN [line |-> <<>>, tag |-> 0, rest |-> <<>>, reads |-> 1]
    ELSE [line |-> Head(buf).text, tag |-> Head(buf).tag, rest |-> Tail(buf),
          reads |-> 1]

\* self.ser.write(data) and then self.ser.readline(), the device acting in
\* between (or after the timeout, when it is late)
Exchange(data, mode) ==
    LET dev == DeviceStep(store, data, nwrites + 1, mode)
        rd  == ReadLine(IF dev.timely THEN rxbuf \o dev.lines ELSE rxbuf)
    IN  [line     |-> rd.line,
         tag      |-> rd.tag,
         reads    |-> rd.reads,
         timedOut |-> rd.reads = 1 /\ rd.line = <<>>,
         rxbuf    |-> IF dev.timely THEN rd.rest ELSE rd.rest \o dev.lines,
         store    |-> dev.store]

(***************************************************************************)
(* Inputs: the keys, values and batches callers pass.                      *)
(***************************************************************************)
Keys == DOMAIN KeyChars

\* per key, the values on both sides of each edge of its range, an
\* unaligned value inside the range, and one value that is no int
Pairs ==
    { <<"offset", ToBig(n)>> : n \in {5, 10, 11, 15} }
        \cup { <<"offset", <<21474, 836475>>>>, <<"offset", <<21474, 836480>>>>,
               <<"offset", NotAnInt>> }
        \cup { <<"length", ToBig(n)>> : n \in {0, 5, 11, 20, 635, 640} }
        \cup { <<"spacing", ToBig(n)>> : n \in {15, 32, 35, 36, 40, 5242875, 5242880} }
        \cup { <<"repeats", ToBig(n)>> : n \in {-1, 0, 2, 31, 32} }
        \cup { <<"bogus", ToBig(10)>> }

\* the pairs longer batches are made of
BatchPairs ==
    { <<"offset", ToBig(10)>>, <<"length", ToBig(11)>>, <<"length", ToBig(20)>>,
      <<"repeats", ToBig(32)>>, <<"bogus", ToBig(10)>> }

\* a dict holds a key once
DistinctKeys(b) == \A i, j \in 1..Len(b) : i # j => b[i][1] # b[j][1]

\* test_delay_control.py line 7
TestBatch ==
    << <<"offset", ToBig(15)>>, <<"length", ToBig(20)>>,
       <<"spacing", ToBig(15)>>, <<"repeats", ToBig(2)>> >>

Batches ==
    { <<>> } \cup { <<p>> : p \in Pairs } \cup { TestBatch }
        \cup UNION { { b \in [1..n -> BatchPairs] : DistinctKeys(b) } : n \in 2..MaxBatch }

(***************************************************************************)
(* State.                                                                  *)
(*   serOpen   self.ser is open                                            *)
(*   pc        where the owner of the `with` block is: "scope" inside the  *)
(*             block, "raising" with an exception in flight, "exited"      *)
(*   store     the device's value per code                                 *)
(*   rxbuf     lines the device has sent that no readline has taken        *)
(*   nwrites, nreads   calls of ser.write and ser.readline so far          *)
(*   ncalls    calls of set_parameters and get_parameter so far            *)
(*   untimely  some command was not answered by one line in time           *)
(*   call      the last call: its arguments (op, arg), the device's        *)
(*             behaviour on it (mode), the bytes it wrote, the line it     *)
(*             read, how many writes and reads it made (nw, nr), the       *)
(*             number of its command (seq) and of the command the line it  *)
(*             read answers (tag), whether the read timed out, whether     *)
(*             every command up to it was answered by one line in time     *)
(*             (clean), and what it returned or raised (result)            *)
(*   told      per key, the value of the last set command the device took  *)
(***************************************************************************)
NoCall ==
    [op |-> "none", arg |-> <<>>, mode |-> "none", result |-> Return(None),
     wrote |-> <<>>, nw |-> 0, nr |-> 0, line |-> <<>>, seq |-> 0, tag |-> 0,
     timedOut |-> FALSE, clean |-> TRUE]

\* a call that raised before it touched the serial line
Rejected(op, arg, result) ==
    [NoCall EXCEPT !.op = op, !.arg = arg, !.result = result, !.clean = ~untimely]

\* a call that wrote `data` and read one line
Performed(op, arg, mode, data, x, result) ==
    [op |-> op, arg |-> arg, mode |-> mode.kind, result |-> result,
     wrote |-> data, nw |-> 1, nr |-> x.reads, line |-> x.line,
     seq |-> nwrites + 1, tag |-> x.tag,
     timedOut |-> x.timedOut, clean |-> ~untimely /\ mode.kind \in {"echo", "say"}]

Init ==
    /\ serOpen = TRUE
    /\ pc = "scope"
    /\ store = [c \in Codes |-> ToBig(0)]
    /\ rxbuf = <<>>
    /\ nwrites = 0
    /\ nreads = 0
    /\ ncalls = 0
    /\ untimely = FALSE
    /\ call = NoCall
    /\ told = [k \in DOMAIN param_constraints |-> None]

\* what the rest of a call leaves behind, given what it did on the line
AfterExchange(mode, x, c) ==
    /\ call' = c
    /\ pc' = IF c.result.exc = "none" THEN "scope" ELSE "raising"
    /\ store' = x.store
    /\ rxbuf' = x.rxbuf
    /\ nwrites' = nwrites + 1
    /\ nreads' = nreads + x.reads
    /\ ncalls' = ncalls + 1
    /\ untimely' = (untimely \/ mode.kind \in {"late", "silent"})
    /\ UNCHANGED serOpen

AfterRejected(c) ==
    /\ call' = c
    /\ pc' = "raising"
    /\ ncalls' = ncalls + 1
    /\ UNCHANGED <<serOpen, store, rxbuf, nwrites, nreads, untimely, told>>

\* the keys of a batch, with their values, written over `t`
RECURSIVE Tell(_, _)
Tell(t, items) ==
    IF items = <<>> THEN t
    ELSE Tell([t EXCEPT ![Head(items)[1]] = Head(items)[2]], Tail(items))

\* a check that reports a refusal by its return value (as the caller in
\* test.py expects of set_delay) instead of raising
SetResultReturnsFalse(response, uart_string) ==
    IF response # <<"O", "K">> THEN Return(<<"False">>) ELSE Return(None)

\* if response != "OK": raise RuntimeError(...)
SetResult(response, uart_string) ==
    IF response # <<"O", "K">>
    THEN Raise("RuntimeError", "Setting Pico parameters", "", response, uart_string)
    ELSE Return(None)

\* try: raw = int(response) except ValueError: print(...); return -1
\* and then return raw * divider
GetResult(key, response) ==
    IF ParseInt(response) = NoInt
    THEN [Return(ToBig(-1)) EXCEPT !.msg = "Error: Unexpected response",
                                   !.key = key, !.response = response]
    ELSE Return(ToPhysical(ParseInt(response), param_constraints[key].divider))

\* DelayController.set_parameters(parameters); the device's behaviour on
\* the command, if one is sent, is the environment's choice
SetParameters(parameters) ==
    /\ pc = "scope"
    /\ ncalls < MaxCalls
    /\ LET built == BuildCommand(parameters, <<"S", " ">>)
       IN  IF built.exc # "none"
           THEN AfterRejected(Rejected("set", parameters, built))
           ELSE \E mode \in DeviceModes :
                  LET x == Exchange(Encode(built.ret), mode)
                      response == Strip(Decode(x.line))
                  IN  /\ AfterExchange(mode, x,
                             Performed("set", parameters, mode, Encode(built.ret), x,
                                       SetResult(response, built.ret)))
                      /\ told' = IF mode.kind \in {"echo", "late"}
                                 THEN Tell(told, parameters) ELSE told

\* DelayController.get_parameter(key)
GetParameter(key) ==
    /\ pc = "scope"
    /\ ncalls < MaxCalls
    /\ IF key \notin DOMAIN param_constraints
       THEN AfterRejected(Rejected("get", key,
                Raise("ValueError", "Invalid parameter", key, <<>>, <<>>)))
       ELSE \E mode \in DeviceModes :
              LET x == Exchange(Encode(GetCommand(key)), mode)
                  response == Strip(Decode(x.line))
              IN  /\ AfterExchange(mode, x,
                         Performed("get", key, mode, Encode(GetCommand(key)), x,
                                   GetResult(key, response)))
                  /\ UNCHANGED told

\* a close that leaves the port open
CloseNothing == serOpen' = serOpen

\* DelayController.close: self.ser.close()
Close == serOpen' = FALSE

\* main(): except RuntimeError as e: print(...), and the block goes on
Catch ==
    /\ pc = "raising"
    /\ call.result.exc = "RuntimeError"
    /\ pc' = "scope"
    /\ UNCHANGED <<serOpen, store, rxbuf, nwrites, nreads, ncalls, untimely, call, told>>

\* test.py line 6: dc.set_delay(delay) names a method the class does not
\* have, so AttributeError is raised inside the block
SetDelay ==
    /\ pc = "scope"
    /\ call' = Rejected("set_delay", <<>>,
                   Raise("AttributeError", "no attribute", "set_delay", <<>>, <<>>))
    /\ pc' = "raising"
    /\ UNCHANGED <<serOpen, store, rxbuf, nwrites, nreads, ncalls, untimely, told>>

\* DelayController.__exit__: the block is left, by its end or by an
\* exception nothing inside it catches
Exit ==
    /\ pc \in {"scope", "raising"}
    /\ Close
    /\ pc' = "exited"
    /\ UNCHANGED <<store, rxbuf, nwrites, nreads, ncalls, untimely, call, told>>

Next ==
    \/ \E parameters \in Batches : SetParameters(parameters)
    \/ \E key \in Keys : GetParameter(key)
    \/ SetDelay
    \/ Catch
    \/ Exit

Spec == Init /\ [][Next]_vars

(***************************************************************************)
(* The protocol table of the specification, and what it dictates for a     *)
(* pair.  21474836475 = (2^32 - 1) * 5 is <<21474, 836475>>.               *)
(***************************************************************************)
ProtocolTable ==
    [offset  |-> [code |-> "o", lo |-> ToBig(10), hi |-> <<21474, 836475>>, divisor |-> 5],
     length  |-> [code |-> "l", lo |-> ToBig(5),  hi |-> ToBig(635),        divisor |-> 5],
     spacing |-> [code |-> "s", lo |-> ToBig(36), hi |-> ToBig(5242875),    divisor |-> 5],
     repeats |-> [code |-> "r", lo |-> ToBig(0),  hi |-> ToBig(31),         divisor |-> 1]]

Verdict(pair) ==
    IF pair[1] \notin DOMAIN ProtocolTable THEN "Invalid parameter"
    ELSE IF ~IsInt(pair[2]) THEN "must be an integer"
    ELSE IF ~(BigLeq(ProtocolTable[pair[1]].lo, pair[2])
              /\ BigLeq(pair[2], ProtocolTable[pair[1]].hi))
    THEN "is out of valid range"
    ELSE IF BigMod(pair[2], ProtocolTable[pair[1]].divisor) # 0
    THEN "must be divisible by"
    ELSE "accepted"

Offending(batch) == { i \in 1..Len(batch) : Verdict(batch[i]) # "accepted" }

FirstOffending(batch) ==
    CHOOSE i \in Offending(batch) : \A j \in Offending(batch) : i <= j

\* the call passes the checks made before anything is sent
PassesLocally(c) ==
    \/ c.op = "set" /\ Offending(c.arg) = {}
    \/ c.op = "get" /\ c.arg \in DOMAIN ProtocolTable

\* the set command of the wire protocol for a batch, without its end
RECURSIVE WirePairs(_)
WirePairs(batch) ==
    IF batch = <<>> THEN <<>>
    ELSE <<ProtocolTable[Head(batch)[1]].code, " ">>
             \o IntToStr(BigDiv(Head(batch)[2], ProtocolTable[Head(batch)[1]].divisor))
             \o <<" ">> \o WirePairs(Tail(batch))

(***************************************************************************)
(* C1.  A batch in which some pair fails validation, at whatever position, *)
(* changes nothing on the line: the call writes no bytes and reads no      *)
(* line, the device and the input buffer are as before, and the ValueError *)
(* raised names the key of the (first) offending pair.                     *)
(***************************************************************************)
C1_ValidateBeforeSend ==
    [][ (ncalls' = ncalls + 1 /\ call'.op = "set" /\ Offending(call'.arg) # {})
        => /\ nwrites' = nwrites
           /\ nreads' = nreads
           /\ rxbuf' = rxbuf
           /\ store' = store
           /\ call'.result.exc = "ValueError"
           /\ call'.result.key = call'.arg[FirstOffending(call'.arg)][1] ]_vars

\* {"offset": 10, "length": 11}: the second pair is misaligned, nothing is sent
C1_Witness ==
    /\ call.op = "set"
    /\ call.arg = << <<"offset", ToBig(10)>>, <<"length", ToBig(11)>> >>
    /\ call.result.exc = "ValueError"
    /\ call.result.key = "length"
    /\ nwrites = 0

(***************************************************************************)
(* C2.  Round trip: a get of a key, answered in time by a device that      *)
(* follows the protocol and has answered every command so far, returns     *)
(* exactly the value the last set_parameters passed for that key.          *)
(***************************************************************************)
C2_RoundTrip ==
    (call.op = "get" /\ call.mode = "echo" /\ call.clean
        /\ call.arg \in DOMAIN told /\ told[call.arg] # None)
    => (call.result.exc = "none" /\ call.result.ret = told[call.arg])

\* the largest offset goes out as 4294967295 and comes back as 21474836475
C2_Witness ==
    /\ call.op = "get"
    /\ call.arg = "offset"
    /\ call.mode = "echo"
    /\ call.clean
    /\ told["offset"] = <<21474, 836475>>
    /\ call.line = <<"4", "2", "9", "4", "9", "6", "7", "2", "9", "5", "\n">>
    /\ call.result.ret = <<21474, 836475>>

C4_MalformedIsError ==
    (call.op = "get" /\ call.nr = 1 /\ ~call.timedOut
        /\ ParseInt(Strip(call.line)) = NoInt)
    => (call.result.exc # "none" /\ call.result.ret = None
        /\ call.result.response = Strip(call.line))

(***************************************************************************)
(* C5.  A set that has sent its command succeeds iff the line it read,     *)
(* stripped, is exactly OK; otherwise it raises RuntimeError carrying the  *)
(* response text and the command text that was sent.                       *)
(***************************************************************************)
C5_SetResponse ==
    (call.op = "set" /\ call.nw = 1)
    => /\ call.nr = 1
       /\ (call.result.exc = "none") <=> (Strip(call.line) = <<"O", "K">>)
       /\ Strip(call.line) # <<"O", "K">>
            => /\ call.result.exc = "RuntimeError"
               /\ call.result.response = Strip(call.line)
               /\ Encode(call.result.command) = call.wrote

C5_Witness ==
    /\ call.op = "set"
    /\ call.arg = << <<"offset", ToBig(10)>> >>
    /\ Strip(call.line)
         = <<"E", "R", "R", " ", "b", "a", "d", " ", "v", "a", "l", "u", "e">>
    /\ call.result.exc = "RuntimeError"
    /\ call.result.command = <<"S", " ", "o", " ", "2", " ">>

(***************************************************************************)
(* C6.  A read that times out is reported as a transport error: not as the *)
(* RuntimeError of a refused set, not as a ValueError, not as a returned   *)
(* value.                                                                  *)
(***************************************************************************)
C6_TimeoutIsTransportError ==
    call.timedOut => call.result.exc \notin {"none", "RuntimeError", "ValueError"}

(***************************************************************************)
(* C7.  The connection is open for as long as the owner is inside the      *)
(* block, whatever calls have failed there, and closed once the block has  *)
(* been left, on every way out.                                            *)
(***************************************************************************)
C7_Lifecycle == (pc = "exited") <=> ~serOpen

\* the block is left by the ValueError of a rejected batch
C7_Witness ==
    /\ pc = "exited"
    /\ ~serOpen
    /\ call.op = "set"
    /\ call.result.exc = "ValueError"

(***************************************************************************)
(* C8.  Every command written is one line ending in a newline: "S " and    *)
(* the pairs in the caller's order for a set, "G <code>" for a get.        *)
(***************************************************************************)
C8_WireFraming ==
    /\ (call.op = "set" /\ call.nw = 1)
         => call.wrote = <<"S", " ">> \o WirePairs(call.arg) \o <<"\n">>
    /\ (call.op = "get" /\ call.nw = 1)
         => call.wrote = <<"G", " ", ProtocolTable[call.arg].code, "\n">>

(***************************************************************************)
(* C9.  The batch of test_delay_control.py is accepted: no ValueError, and *)
(* one set command carrying the device values 3, 4, 3 and 2.               *)
(***************************************************************************)
C9_TestBatchAccepted ==
    (call.op = "set" /\ call.arg = TestBatch)
    => /\ call.result.exc # "ValueError"
       /\ call.nw = 1
       /\ SplitSpaces(call.wrote, <<>>, <<>>)
            = << <<"S">>, <<"o">>, <<"3">>, <<"l">>, <<"4">>,
                 <<"s">>, <<"3">>, <<"r">>, <<"2">> >>

(***************************************************************************)
(* C10.  A call that passes the local checks makes one write and then one  *)
(* read, a call they reject makes neither; so writes and reads are equal   *)
(* in number between calls, and while the device has answered every        *)
(* command with one line in time, the line a call reads answers its own    *)
(* command.                                                                *)
(***************************************************************************)
C10_Pairing ==
    /\ [][ ncalls' = ncalls + 1
           => IF PassesLocally(call')
              THEN nwrites' = nwrites + 1 /\ nreads' = nreads + 1
                   /\ call'.nw = 1 /\ call'.seq = nwrites'
              ELSE nwrites' = nwrites /\ nreads' = nreads /\ call'.nw = 0 ]_vars
    /\ [](nwrites = nreads)
    /\ []((call.nw = 1 /\ call.clean) => (call.tag = call.seq /\ rxbuf = <<>>))

\* the second of two answered commands reads the answer to the second
C10_Witness ==
    /\ nwrites = 2
    /\ nreads = 2
    /\ call.clean
    /\ call.seq = 2
    /\ call.tag = 2

====
